---- MODULE Spec2Model ----
(***************************************************************************)
(* Router agent of the multi-agent customer service system:                *)
(* analyze_intent, coordinate_multi_agent_request (with the A2A client and *)
(* the two route_to_* wrappers) and synthesize_response of                 *)
(* src/router_agent.py, the notebook's analyze_intent of                   *)
(* src/Multi_Agent_Customer_Service_Colab.py, and the request of the       *)
(* demo's test client of src/main.py; the tools of the data store of       *)
(* src/mcp_server.py; the MCP client wrapper of src/customer_data_agent.py *)
(* and the agents' capability descriptors.                                 *)
(*                                                                         *)
(* Text is a sequence of one-character strings.  An optional dict key is a *)
(* sequence of length 0 (key unset) or 1 (key set to that value).          *)
(***************************************************************************)
EXTENDS Integers, Sequences, FiniteSets, TLC

VARIABLES
  pc,        \* where the request is: idle, analyzed, await_data, ...
  query,     \* the query text of the request
  analysis,  \* what the router's analyze_intent returned
  notebook,  \* what the notebook's analyze_intent returned
  args,      \* the arguments of coordinate_multi_agent_request
  call,      \* per downstream agent: the state of its task submission
  reply,     \* per downstream agent: what the network gave its POST
  sent,      \* per downstream agent: the task requests posted to it
  results,   \* the results list of coordinate_multi_agent_request
  envelope,  \* what coordinate_multi_agent_request returned
  synth,     \* what synthesize_response returned
  clients,   \* per downstream agent: the httpx.AsyncClient of each send_task
  demo,      \* the task requests the demo's test client posted to the router
  customers, \* the data store's customers table
  tickets,   \* the data store's tickets table
  db_open,   \* number of database connections opened by a tool and not closed
  tool_call, \* the last tool call of the data store and its arguments
  tool_ret,  \* what that tool call returned
  AGENT_CARD,  \* the support agent's module-level card
  described,   \* per node: the capability descriptors it has returned
  coro,        \* per caller of the MCP client wrapper: where its coroutine is
  session,     \* MCPClientWrapper._session: 0 (None) or the id of a session
  streams,     \* MCPClientWrapper._streams: 0 (None) or the id of a connection
  sse_opened,  \* number of connections to the MCP server opened so far
  sessions,    \* the ClientSession objects created so far, by id
  issued       \* the tool calls issued on a session so far

router_vars ==
  <<pc, query, analysis, notebook, args, call, reply, sent, results,
    envelope, synth, clients, demo>>

store_vars == <<customers, tickets, db_open, tool_call, tool_ret>>

node_vars ==
  <<AGENT_CARD, described, coro, session, streams, sse_opened, sessions, issued>>

vars == <<router_vars, store_vars, node_vars>>

(***************************************************************************)
(* Bounds                                                                  *)
(***************************************************************************)
\* number of vocabulary fragments concatenated into a query text
MaxFrags == 2

\* number of messages the demo's test client sends in a row
MaxDemo == 2

\* number of tickets created on top of the sample tickets
MaxNewTickets == 1

\* number of database connections left open at one time
MaxLeaked == 2

\* number of times a node is asked for its capability descriptor
MaxDescribe == 4

\* number of concurrent callers of the MCP client wrapper
MaxCallers == 2

(***************************************************************************)
(* Characters: str.lower() and the regex classes \d, \s, \w, [\w\.-]       *)
(***************************************************************************)
UpperCase == <<"A","B","C","D","E","F","G","H","I","J","K","L","M","N","O","P","Q","R","S","T","U","V","W","X","Y","Z">>

LowerCase == <<"a","b","c","d","e","f","g","h","i","j","k","l","m","n","o","p","q","r","s","t","u","v","w","x","y","z">>

Digits == <<"0","1","2","3","4","5","6","7","8","9">>

Range(f) == {f[i] : i \in DOMAIN f}

LowerChar(c) ==
  IF c \in Range(UpperCase)
    THEN LowerCase[CHOOSE i \in DOMAIN UpperCase : UpperCase[i] = c]
    ELSE c

Lower(s) == [i \in DOMAIN s |-> LowerChar(s[i])]

DigitChars == Range(Digits)

WordChars == Range(UpperCase) \cup Range(LowerCase) \cup Range(Digits) \cup {"_"}

IsDigit(c) == c \in DigitChars

IsSpace(c) == c \in {" ", "\n", "\t"}

IsWord(c) == c \in WordChars

IsWordDotDash(c) == IsWord(c) \/ c \in {".", "-"}

DigitValue(c) == (CHOOSE i \in DOMAIN Digits : Digits[i] = c) - 1

RECURSIVE ToInt(_)
ToInt(ds) ==
  IF ds = <<>> THEN 0
  ELSE 10 * ToInt(SubSeq(ds, 1, Len(ds) - 1)) + DigitValue(ds[Len(ds)])

Min(S) == CHOOSE m \in S : \A n \in S : m <= n

Max(S) == CHOOSE m \in S : \A n \in S : m >= n

(***************************************************************************)
(* re.search.  A pattern is a sequence of atoms; position p means that the *)
(* next character read is s[p].  Step gives every position an atom can end *)
(* at, Ends every position the atoms from k on can end at.                 *)
(***************************************************************************)
L(w) == [t |-> "str", w |-> w]

DotStar == [t |-> "dotstar", w |-> <<>>]

DigitPlus == [t |-> "digits", w |-> <<>>]

SpaceStar == [t |-> "spaces", w |-> <<>>]

WordPlus == [t |-> "word", w |-> <<>>]

WordDotDashPlus == [t |-> "worddotdash", w |-> <<>>]

OptIdHash == [t |-> "opt_id_hash", w |-> <<>>]

OptId == [t |-> "opt_id", w |-> <<>>]

StrAt(w, s, p) ==
  IF p + Len(w) - 1 <= Len(s) /\ \A i \in DOMAIN w : s[p + i - 1] = w[i]
    THEN {p + Len(w)} ELSE {}

NotNewline(c) == c # "\n"

\* the character classes of the patterns: . \d \s \w [\w\.-]
InClass(cls, c) ==
  CASE cls = "dot" -> NotNewline(c)
    [] cls = "digit" -> IsDigit(c)
    [] cls = "space" -> IsSpace(c)
    [] cls = "word" -> IsWord(c)
    [] cls = "worddotdash" -> IsWordDotDash(c)

\* the end of the longest run of characters of the class that starts at p
RECURSIVE RunEnd(_, _, _)
RunEnd(cls, s, p) ==
  IF p <= Len(s) /\ InClass(cls, s[p]) THEN RunEnd(cls, s, p + 1) ELSE p

\* a quantified class may stop after any number >= least of its characters
RunOf(cls, s, p, least) == (p + least)..RunEnd(cls, s, p)

Step(atom, s, p) ==
  CASE atom.t = "str" -> StrAt(atom.w, s, p)
    [] atom.t = "dotstar" -> RunOf("dot", s, p, 0)
    [] atom.t = "digits" -> RunOf("digit", s, p, 1)
    [] atom.t = "spaces" -> RunOf("space", s, p, 0)
    [] atom.t = "word" -> RunOf("word", s, p, 1)
    [] atom.t = "worddotdash" -> RunOf("worddotdash", s, p, 1)
    [] atom.t = "opt_id_hash" ->
         {p} \cup StrAt(<<"i","d">>, s, p) \cup StrAt(<<"#">>, s, p)
    [] atom.t = "opt_id" -> {p} \cup StrAt(<<"i","d">>, s, p)

RECURSIVE Ends(_, _, _, _)
Ends(pat, k, s, P) ==
  IF k > Len(pat) \/ P = {} THEN P
  ELSE Ends(pat, k + 1, s, UNION {Step(pat[k], s, p) : p \in P})

Search(pat, s) == Ends(pat, 1, s, 1..(Len(s) + 1)) # {}

MatchStarts(pat, s) == {p \in 1..(Len(s) + 1) : Ends(pat, 1, s, {p}) # {}}

(***************************************************************************)
(* The two downstream groups                                               *)
(***************************************************************************)
\* variant: upgrade is listed in the data group as well
data_agent_intents_with_upgrade ==
  <<"get_customer_info", "view_ticket_history", "update_customer",
    "create_ticket", "report", "upgrade">>

data_agent_intents ==
  <<"get_customer_info", "view_ticket_history", "update_customer",
    "create_ticket", "report">>

\* variant: the support group lacks the default intent
support_agent_intents_no_default ==
  <<"billing_issue", "cancellation", "upgrade", "urgent">>

support_agent_intents ==
  <<"billing_issue", "cancellation", "upgrade", "urgent", "general_support">>

(***************************************************************************)
(* analyze_intent of the router                                            *)
(***************************************************************************)
intent_patterns ==
  << [intent |-> "get_customer_info", patterns |-> <<
        <<L(<<"g","e","t"," ","c","u","s","t","o","m","e","r">>)>>,
        <<L(<<"c","u","s","t","o","m","e","r"," ","i","n","f","o">>)>>,
        <<L(<<"c","u","s","t","o","m","e","r"," ","i","d"," ">>), DigitPlus>>,
        <<L(<<"w","h","o"," ","i","s"," ","c","u","s","t","o","m","e","r">>)>> >>],
     [intent |-> "view_ticket_history", patterns |-> <<
        <<L(<<"t","i","c","k","e","t"," ","h","i","s","t","o","r","y">>)>>,
        <<L(<<"s","h","o","w">>), DotStar, L(<<"t","i","c","k","e","t","s">>)>>,
        <<L(<<"m","y"," ","t","i","c","k","e","t","s">>)>>,
        <<L(<<"p","a","s","t">>), DotStar, L(<<"t","i","c","k","e","t","s">>)>> >>],
     [intent |-> "update_customer", patterns |-> <<
        <<L(<<"u","p","d","a","t","e">>), DotStar, L(<<"e","m","a","i","l">>)>>,
        <<L(<<"c","h","a","n","g","e">>), DotStar, L(<<"e","m","a","i","l">>)>>,
        <<L(<<"u","p","d","a","t","e">>), DotStar, L(<<"i","n","f","o">>)>>,
        <<L(<<"c","h","a","n","g","e">>), DotStar, L(<<"p","h","o","n","e">>)>> >>],
     [intent |-> "create_ticket", patterns |-> <<
        <<L(<<"n","e","w"," ","t","i","c","k","e","t">>)>>,
        <<L(<<"c","r","e","a","t","e">>), DotStar, L(<<"t","i","c","k","e","t">>)>>,
        <<L(<<"r","e","p","o","r","t">>), DotStar, L(<<"i","s","s","u","e">>)>> >>],
     [intent |-> "billing_issue", patterns |-> <<
        <<L(<<"b","i","l","l","i","n","g">>)>>,
        <<L(<<"c","h","a","r","g","e">>)>>,
        <<L(<<"i","n","v","o","i","c","e">>)>>,
        <<L(<<"r","e","f","u","n","d">>)>>,
        <<L(<<"c","h","a","r","g","e","d"," ","t","w","i","c","e">>)>> >>],
     [intent |-> "cancellation", patterns |-> <<
        <<L(<<"c","a","n","c","e","l">>)>>,
        <<L(<<"c","a","n","c","e","l","l","a","t","i","o","n">>)>>,
        <<L(<<"c","l","o","s","e">>), DotStar, L(<<"a","c","c","o","u","n","t">>)>> >>],
     [intent |-> "upgrade", patterns |-> <<
        <<L(<<"u","p","g","r","a","d","e">>)>>,
        <<L(<<"p","r","e","m","i","u","m">>)>>,
        <<L(<<"b","e","t","t","e","r"," ","p","l","a","n">>)>> >>],
     [intent |-> "urgent", patterns |-> <<
        <<L(<<"u","r","g","e","n","t">>)>>,
        <<L(<<"e","m","e","r","g","e","n","c","y">>)>>,
        <<L(<<"i","m","m","e","d","i","a","t","e","l","y">>)>>,
        <<L(<<"a","s","a","p">>)>>,
        <<L(<<"d","o","w","n">>)>>,
        <<L(<<"b","r","o","k","e","n">>)>> >>],
     [intent |-> "report", patterns |-> <<
        <<L(<<"s","h","o","w">>), DotStar, L(<<"a","l","l">>)>>,
        <<L(<<"a","c","t","i","v","e">>), DotStar, L(<<"c","u","s","t","o","m","e","r","s">>), DotStar, L(<<"o","p","e","n">>),
          DotStar, L(<<"t","i","c","k","e","t","s">>)>>,
        <<L(<<"r","e","p","o","r","t">>)>> >>] >>

\* for intent, patterns in intent_patterns.items(): ... intents.append(intent)
RECURSIVE DetectIntents(_, _, _)
DetectIntents(table, k, query_lower) ==
  IF k > Len(table) THEN <<>>
  ELSE LET hit == \E i \in DOMAIN table[k].patterns :
                    Search(table[k].patterns[i], query_lower)
       IN (IF hit THEN <<table[k].intent>> ELSE <<>>)
            \o DetectIntents(table, k + 1, query_lower)

\* variant: the alternative of a bare "id" left out of the pattern
IdPrefixesCustomerOnly ==
  { <<L(<<"c","u","s","t","o","m","e","r">>), SpaceStar, OptIdHash, SpaceStar>> }

\* r'(?:customer\s*(?:id|#)?|id)\s*(\d+)', split at its top-level alternation
IdPrefixes ==
  { <<L(<<"c","u","s","t","o","m","e","r">>), SpaceStar, OptIdHash, SpaceStar>>,
    <<L(<<"i","d">>), SpaceStar>> }

\* variant: an identifier of 0 counts as no identifier
IdMatchNonZero(prefixes, s) ==
  LET starts == UNION {MatchStarts(pre \o <<DigitPlus>>, s) : pre \in prefixes}
  IN IF starts = {} THEN <<>>
     ELSE LET st == Min(starts)
              dstart == CHOOSE p \in UNION {Ends(pre, 1, s, {st}) : pre \in prefixes} :
                          p <= Len(s) /\ IsDigit(s[p])
              dend == RunEnd("digit", s, dstart)
              n == ToInt(SubSeq(s, dstart, dend - 1))
          IN IF n = 0 THEN <<>> ELSE <<n>>

\* group(1) of the leftmost match: \d+ is greedy and ends the pattern, so it
\* takes the whole digit run that starts where the prefix ended
IdMatch(prefixes, s) ==
  LET starts == UNION {MatchStarts(pre \o <<DigitPlus>>, s) : pre \in prefixes}
  IN IF starts = {} THEN <<>>
     ELSE LET st == Min(starts)
              dstart == CHOOSE p \in UNION {Ends(pre, 1, s, {st}) : pre \in prefixes} :
                          p <= Len(s) /\ IsDigit(s[p])
              dend == RunEnd("digit", s, dstart)
          IN <<ToInt(SubSeq(s, dstart, dend - 1))>>

\* r'[\w\.-]+@[\w\.-]+\.\w+'
EmailPattern ==
  <<WordDotDashPlus, L(<<"@">>), WordDotDashPlus, L(<<".">>), WordPlus>>

\* group() of the leftmost match: every quantifier is greedy, and a match
\* through a later dot ends later, so the match is the longest one
EmailMatch(s) ==
  LET starts == MatchStarts(EmailPattern, s)
  IN IF starts = {} THEN <<>>
     ELSE LET st == Min(starts)
              en == Max(Ends(EmailPattern, 1, s, {st}))
          IN <<SubSeq(s, st, en - 1)>>

InList(x, list) == \E i \in DOMAIN list : list[i] = x

\* for intent in intents: one routing entry per group the intent belongs to
RECURSIVE Routing(_, _)
Routing(intents, k) ==
  IF k > Len(intents) THEN <<>>
  ELSE (IF InList(intents[k], data_agent_intents)
          THEN <<[intent |-> intents[k], agent |-> "customer_data_agent"]>>
          ELSE <<>>)
       \o (IF InList(intents[k], support_agent_intents)
             THEN <<[intent |-> intents[k], agent |-> "support_agent"]>>
             ELSE <<>>)
       \o Routing(intents, k + 1)

\* variant: the fallback to general_support left out
DefaultIntentOmitted(intents) == intents

DefaultIntent(intents) ==
  IF intents = <<>> THEN <<"general_support">> ELSE intents

\* variant: the comparison off by one
IsMultiIntentOffByOne(intents) == Len(intents) >= 1

IsMultiIntent(intents) == Len(intents) > 1

\* variant: a billing issue alone does not raise the priority
PriorityUrgentOnly(intents) ==
  IF InList("urgent", intents) THEN "HIGH" ELSE "NORMAL"

Priority(intents) ==
  IF InList("urgent", intents) \/ InList("billing_issue", intents)
    THEN "HIGH" ELSE "NORMAL"

analyze_intent(q) ==
  LET query_lower == Lower(q)
      intents == DefaultIntent(DetectIntents(intent_patterns, 1, query_lower))
  IN [success |-> TRUE,
      original_query |-> q,
      detected_intents |-> intents,
      extracted_parameters |->
        [customer_id |-> IdMatch(IdPrefixes, query_lower),
         email |-> EmailMatch(q)],
      is_multi_intent |-> IsMultiIntent(intents),
      routing |-> Routing(intents, 1),
      priority |-> Priority(intents)]

(***************************************************************************)
(* analyze_intent of the notebook: substring tests                         *)
(***************************************************************************)
colab_keywords ==
  << [intent |-> "get_customer_info", patterns |-> <<
        <<L(<<"g","e","t"," ","c","u","s","t","o","m","e","r">>)>>, <<L(<<"c","u","s","t","o","m","e","r"," ","i","d">>)>>,
        <<L(<<"c","u","s","t","o","m","e","r"," ","i","n","f","o">>)>> >>],
     [intent |-> "view_history", patterns |-> <<
        <<L(<<"t","i","c","k","e","t"," ","h","i","s","t","o","r","y">>)>>, <<L(<<"m","y"," ","t","i","c","k","e","t","s">>)>> >>],
     [intent |-> "update_customer", patterns |-> <<
        <<L(<<"u","p","d","a","t","e">>)>>, <<L(<<"c","h","a","n","g","e"," ","e","m","a","i","l">>)>> >>],
     [intent |-> "billing", patterns |-> <<
        <<L(<<"b","i","l","l","i","n","g">>)>>, <<L(<<"c","h","a","r","g","e">>)>>, <<L(<<"r","e","f","u","n","d">>)>> >>],
     [intent |-> "cancellation", patterns |-> << <<L(<<"c","a","n","c","e","l">>)>> >>],
     [intent |-> "upgrade", patterns |-> << <<L(<<"u","p","g","r","a","d","e">>)>> >>],
     [intent |-> "urgent", patterns |-> <<
        <<L(<<"u","r","g","e","n","t">>)>>, <<L(<<"i","m","m","e","d","i","a","t","e","l","y">>)>>, <<L(<<"a","s","a","p">>)>> >>],
     [intent |-> "report", patterns |-> <<
        <<L(<<"a","l","l"," ","a","c","t","i","v","e">>)>>, <<L(<<"r","e","p","o","r","t">>)>>,
        <<L(<<"o","p","e","n"," ","t","i","c","k","e","t","s">>)>> >>] >>

\* r'(?:customer\s*(?:id)?|id)\s*(\d+)'
ColabIdPrefixes ==
  { <<L(<<"c","u","s","t","o","m","e","r">>), SpaceStar, OptId, SpaceStar>>,
    <<L(<<"i","d">>), SpaceStar>> }

colab_analyze_intent(q) ==
  LET query_lower == Lower(q)
      intents == DefaultIntent(DetectIntents(colab_keywords, 1, query_lower))
  IN [query |-> q,
      intents |-> intents,
      params |->
        [customer_id |-> IdMatch(ColabIdPrefixes, query_lower),
         email |-> EmailMatch(q)],
      is_multi_intent |-> IsMultiIntent(intents)]

(***************************************************************************)
(* Text helpers: str(int), repr(list of str), substring test               *)
(***************************************************************************)
RECURSIVE IntToText(_)
IntToText(n) ==
  IF n < 10 THEN <<Digits[n + 1]>>
  ELSE IntToText(n \div 10) \o <<Digits[(n % 10) + 1]>>

\* the characters of the intent and agent names
TextOf ==
  [get_customer_info |-> <<"g","e","t","_","c","u","s","t","o","m","e","r","_","i","n","f","o">>,
   view_ticket_history |-> <<"v","i","e","w","_","t","i","c","k","e","t","_","h","i","s","t","o","r","y">>,
   update_customer |-> <<"u","p","d","a","t","e","_","c","u","s","t","o","m","e","r">>,
   create_ticket |-> <<"c","r","e","a","t","e","_","t","i","c","k","e","t">>,
   report |-> <<"r","e","p","o","r","t">>,
   billing_issue |-> <<"b","i","l","l","i","n","g","_","i","s","s","u","e">>,
   cancellation |-> <<"c","a","n","c","e","l","l","a","t","i","o","n">>,
   upgrade |-> <<"u","p","g","r","a","d","e">>,
   urgent |-> <<"u","r","g","e","n","t">>,
   general_support |-> <<"g","e","n","e","r","a","l","_","s","u","p","p","o","r","t">>,
   view_history |-> <<"v","i","e","w","_","h","i","s","t","o","r","y">>,
   billing |-> <<"b","i","l","l","i","n","g">>,
   customer_data_agent |-> <<"c","u","s","t","o","m","e","r","_","d","a","t","a","_","a","g","e","n","t">>,
   support_agent |-> <<"s","u","p","p","o","r","t","_","a","g","e","n","t">>,
   unknown |-> <<"u","n","k","n","o","w","n">>]

RECURSIVE Join(_, _)
Join(parts, sep) ==
  IF parts = <<>> THEN <<>>
  ELSE IF Len(parts) = 1 THEN parts[1]
  ELSE parts[1] \o sep \o Join(Tail(parts), sep)

\* repr() of a list of str: ['a', 'b']
ReprList(names) ==
  <<"[">> \o Join([i \in DOMAIN names |-> <<"'">> \o TextOf[names[i]] \o <<"'">>],
                 <<","," ">>) \o <<"]">>

Contains(text, sub) == Search(<<L(sub)>>, text)

(***************************************************************************)
(* A2AClient.send_task: the task request, and what a POST can give         *)
(***************************************************************************)
TaskRequest(message, task_id) ==
  [jsonrpc |-> "2.0",
   method |-> "tasks/send",
   params |-> [id |-> task_id,
               message |-> [role |-> "user", parts |-> <<[text |-> message]>>]],
   id |-> task_id]

\* variant: the same identifier for every task
FixedTaskId(posted) == 1

\* uuid.uuid4(): an identifier no posted request of this dispatch carries
FreshTaskId(posted) ==
  1 + Cardinality(UNION {{posted[a][i].id : i \in DOMAIN posted[a]} : a \in DOMAIN posted})

\* the request of the demo's test client (main.py, A2ATestClient.send_message)
send_message_request(message, task_id) ==
  [jsonrpc |-> "2.0",
   method |-> "tasks/send",
   params |-> [id |-> task_id,
               message |-> [role |-> "user", parts |-> <<[text |-> message]>>]],
   id |-> task_id]

\* reply bodies, as the text on the wire
TaskResultText ==
  "{\"jsonrpc\":\"2.0\",\"id\":\"t\",\"result\":{\"artifacts\":[{\"parts\":[{\"text\":\"done\"}]}]}}"

AppErrorText ==
  "{\"jsonrpc\":\"2.0\",\"id\":\"t\",\"result\":{\"artifacts\":[{\"parts\":[{\"text\":\"{\\\"success\\\": false, \\\"error\\\": \\\"Customer not found\\\"}\"}]}]}}"

RpcErrorText ==
  "{\"jsonrpc\":\"2.0\",\"id\":\"t\",\"error\":{\"code\":-32603,\"message\":\"Internal error\"}}"

EmptyObjectText == "{}"

HtmlText == "<html>Internal Server Error</html>"

BodyTexts ==
  {TaskResultText, AppErrorText, RpcErrorText, EmptyObjectText, HtmlText}

\* response.json(): the members of the JSON object, each value kept as text
JsonTable ==
  { <<TaskResultText,
      [jsonrpc |-> "2.0", id |-> "t",
       result |-> "{\"artifacts\":[{\"parts\":[{\"text\":\"done\"}]}]}"]>>,
    <<AppErrorText,
      [jsonrpc |-> "2.0", id |-> "t",
       result |-> "{\"artifacts\":[{\"parts\":[{\"text\":\"{\\\"success\\\": false, \\\"error\\\": \\\"Customer not found\\\"}\"}]}]}"]>>,
    <<RpcErrorText,
      [jsonrpc |-> "2.0", id |-> "t",
       error |-> "{\"code\":-32603,\"message\":\"Internal error\"}"]>>,
    <<EmptyObjectText, [x \in {} |-> ""]>> }

IsJson(text) == \E e \in JsonTable : e[1] = text

Json(text) == (CHOOSE e \in JsonTable : e[1] = text)[2]

StatusCodes == {200, 500}

\* what the network gives one POST
Replies ==
  {[kind |-> "connect_error", status |-> 0, text |-> ""],
   [kind |-> "timeout", status |-> 0, text |-> ""]}
  \cup [kind : {"http"}, status : StatusCodes, text : BodyTexts]

NoReply == [kind |-> "none", status |-> 0, text |-> ""]

\* variant: the body is parsed and returned whatever the status code
send_task_unchecked(r) ==
  CASE r.kind = "connect_error" ->
         [raised |-> TRUE, value |-> "All connection attempts failed"]
    [] r.kind = "timeout" ->
         [raised |-> TRUE, value |-> "ReadTimeout"]
    [] r.kind = "http" /\ IsJson(r.text) ->
         [raised |-> FALSE, value |-> Json(r.text)]
    [] OTHER ->
         [raised |-> TRUE, value |-> "Expecting value: line 1 column 1 (char 0)"]

\* the return of send_task, or the exception it raises (value is str(e))
send_task(r) ==
  CASE r.kind = "connect_error" ->
         [raised |-> TRUE, value |-> "All connection attempts failed"]
    [] r.kind = "timeout" ->
         [raised |-> TRUE, value |-> "ReadTimeout"]
    [] r.kind = "http" /\ r.status = 200 /\ IsJson(r.text) ->
         [raised |-> FALSE, value |-> Json(r.text)]
    [] r.kind = "http" /\ r.status = 200 /\ ~IsJson(r.text) ->
         [raised |-> TRUE, value |-> "Expecting value: line 1 column 1 (char 0)"]
    [] OTHER ->
         [raised |-> FALSE,
          value |-> [error |-> "Request failed: " \o ToString(r.status),
                     body |-> r.text]]

\* async with httpx.AsyncClient(timeout=30.0) as client: the client a call
\* of send_task opens, and what leaving the block does to it
ClientOpened == "open"

\* variant: the client is closed on the return paths only, an exception
\* (connection failure, timeout, unparseable body) leaves it open
client_aexit_on_return(r) ==
  IF send_task(r).raised THEN "open" ELSE "closed"

client_aexit(r) == "closed"

\* the last client of the list leaves its block on reply r
CloseLast(cs, r) == [cs EXCEPT ![Len(cs)] = client_aexit(r)]

(***************************************************************************)
(* route_to_customer_data_agent, route_to_support_agent: raised is TRUE    *)
(* when an exception leaves the function                                   *)
(***************************************************************************)
\* variant: no try/except around send_task, its exception leaves the function
route_to_support_agent_uncaught(r) ==
  LET response == send_task(r)
  IN IF response.raised
       THEN [raised |-> TRUE,
             value |-> [success |-> FALSE, agent |-> "support_agent",
                        error |-> response.value]]
       ELSE [raised |-> FALSE,
             value |-> [success |-> TRUE, agent |-> "support_agent",
                        response |-> response.value]]

\* variant: no try/except around send_task, its exception leaves the function
route_to_customer_data_agent_uncaught(r) ==
  LET response == send_task(r)
  IN IF response.raised
       THEN [raised |-> TRUE,
             value |-> [success |-> FALSE, agent |-> "customer_data_agent",
                        error |-> response.value]]
       ELSE [raised |-> FALSE,
             value |-> [success |-> TRUE, agent |-> "customer_data_agent",
                        response |-> response.value]]

route_to_customer_data_agent(r) ==
  LET response == send_task(r)
  IN IF response.raised
       THEN [raised |-> FALSE,
             value |-> [success |-> FALSE, agent |-> "customer_data_agent",
                        error |-> response.value]]
       ELSE [raised |-> FALSE,
             value |-> [success |-> TRUE, agent |-> "customer_data_agent",
                        response |-> response.value]]

route_to_support_agent(r) ==
  LET response == send_task(r)
  IN IF response.raised
       THEN [raised |-> FALSE,
             value |-> [success |-> FALSE, agent |-> "support_agent",
                        error |-> response.value]]
       ELSE [raised |-> FALSE,
             value |-> [success |-> TRUE, agent |-> "support_agent",
                        response |-> response.value]]

(***************************************************************************)
(* coordinate_multi_agent_request                                          *)
(***************************************************************************)
\* variant: the dispatcher's copy of the data group lacks report
coord_data_intents_stale ==
  <<"get_customer_info", "view_ticket_history", "update_customer",
    "create_ticket">>

coord_data_intents ==
  <<"get_customer_info", "view_ticket_history", "update_customer",
    "create_ticket", "report">>

\* variant: the dispatcher's copy of the support group lacks upgrade
coord_support_intents_stale ==
  <<"billing_issue", "cancellation", "urgent", "general_support">>

coord_support_intents ==
  <<"billing_issue", "cancellation", "upgrade", "urgent", "general_support">>

DataIntents(intents) ==
  SelectSeq(intents, LAMBDA i : InList(i, coord_data_intents))

\* variant: every intent outside the data group goes to the support agent
SupportIntentsCatchAll(intents) ==
  SelectSeq(intents, LAMBDA i : ~InList(i, coord_data_intents))

SupportIntents(intents) ==
  SelectSeq(intents, LAMBDA i : InList(i, coord_support_intents))

\* params.get(key) is truthy: the key is set, to a value other than 0 or ""
Truthy(opt, falsy) == opt # <<>> /\ opt[1] # falsy

DataRequest(q, intents, params) ==
  <<"H","a","n","d","l","e"," ","t","h","e","s","e"," ","i","n","t","e","n","t","s",":"," ">> \o ReprList(DataIntents(intents)) \o <<"."," ">>
  \o (IF Truthy(params.customer_id, 0)
        THEN <<"C","u","s","t","o","m","e","r"," ","I","D",":"," ">> \o IntToText(params.customer_id[1]) \o <<"."," ">>
        ELSE <<>>)
  \o (IF Truthy(params.email, <<>>)
        THEN <<"N","e","w"," ","e","m","a","i","l",":"," ">> \o params.email[1] \o <<"."," ">>
        ELSE <<>>)
  \o <<"O","r","i","g","i","n","a","l"," ","q","u","e","r","y",":"," ">> \o q

SupportRequest(q, intents) ==
  <<"H","a","n","d","l","e"," ","t","h","e","s","e"," ","i","n","t","e","n","t","s",":"," ">> \o ReprList(SupportIntents(intents))
  \o <<"."," ","O","r","i","g","i","n","a","l"," ","q","u","e","r","y",":"," ">> \o q

\* variant: the result is put at the front of the list
PrependResult(rs, r) == <<r>> \o rs

AppendResult(rs, r) == Append(rs, r)

\* variant: the envelope's success follows the per-agent outcomes
CoordinateReturnAllSucceeded(intents, rs) ==
  [success |-> \A i \in DOMAIN rs : rs[i].success,
   coordination_type |-> "multi_agent",
   intents_processed |-> intents,
   agents_called |-> Len(rs),
   results |-> rs]

CoordinateReturn(intents, rs) ==
  [success |-> TRUE,
   coordination_type |-> "multi_agent",
   intents_processed |-> intents,
   agents_called |-> Len(rs),
   results |-> rs]

(***************************************************************************)
(* synthesize_response                                                     *)
(***************************************************************************)
Succeeded(r) == r.success

SummaryPart(r) == TextOf[r.agent] \o <<":"," ","p","r","o","c","e","s","s","e","d"," ","s","u","c","c","e","s","s","f","u","l","l","y">>

\* variant: any success counts as overall success
OverallSuccessAny(successful_results, failed_results) ==
  Len(successful_results) > 0

OverallSuccess(successful_results, failed_results) == Len(failed_results) = 0

\* variant: the summary is the joined parts even when there is none
synthesize_response_joined(agent_results, original_query) ==
  LET successful_results == SelectSeq(agent_results, Succeeded)
      failed_results == SelectSeq(agent_results, LAMBDA r : ~Succeeded(r))
      summary_parts ==
        [i \in DOMAIN successful_results |-> SummaryPart(successful_results[i])]
  IN [success |-> OverallSuccess(successful_results, failed_results),
      original_query |-> original_query,
      agents_consulted |-> Len(agent_results),
      successful_responses |-> Len(successful_results),
      failed_responses |-> Len(failed_results),
      summary |-> Join(summary_parts, <<" ","|"," ">>),
      results |-> agent_results]

synthesize_response(agent_results, original_query) ==
  LET successful_results == SelectSeq(agent_results, Succeeded)
      failed_results == SelectSeq(agent_results, LAMBDA r : ~Succeeded(r))
      summary_parts ==
        [i \in DOMAIN successful_results |-> SummaryPart(successful_results[i])]
  IN [success |-> OverallSuccess(successful_results, failed_results),
      original_query |-> original_query,
      agents_consulted |-> Len(agent_results),
      successful_responses |-> Len(successful_results),
      failed_responses |-> Len(failed_results),
      summary |-> IF summary_parts # <<>>
                    THEN Join(summary_parts, <<" ","|"," ">>)
                    ELSE <<"N","o"," ","a","g","e","n","t","s"," ","r","e","s","p","o","n","d","e","d">>,
      results |-> agent_results]

(***************************************************************************)
(* mcp_server.py: the data store and its tools.  A row is a record without *)
(* the timestamp columns, which no tool writes after the insertion.  A     *)
(* tool gives its return value, the tables after it, and what became of    *)
(* the connection it opened: "none" (it opened none), "closed", or "open"  *)
(* (it returned without conn.close()).                                     *)
(***************************************************************************)
\* setup_database: the sample customers, ids 1..15 in the order of insertion
SampleCustomers ==
  << [id |-> 1, name |-> "John Doe", email |-> "john.doe@example.com",
      phone |-> "+1-555-0101", status |-> "active"],
     [id |-> 2, name |-> "Jane Smith", email |-> "jane.smith@example.com",
      phone |-> "+1-555-0102", status |-> "active"],
     [id |-> 3, name |-> "Bob Johnson", email |-> "bob.johnson@example.com",
      phone |-> "+1-555-0103", status |-> "disabled"],
     [id |-> 4, name |-> "Alice Williams", email |-> "alice.w@techcorp.com",
      phone |-> "+1-555-0104", status |-> "active"],
     [id |-> 5, name |-> "Charlie Brown", email |-> "charlie.brown@email.com",
      phone |-> "+1-555-0105", status |-> "active"],
     [id |-> 6, name |-> "Diana Prince", email |-> "diana.prince@company.org",
      phone |-> "+1-555-0106", status |-> "active"],
     [id |-> 7, name |-> "Edward Norton", email |-> "e.norton@business.net",
      phone |-> "+1-555-0107", status |-> "active"],
     [id |-> 8, name |-> "Fiona Green", email |-> "fiona.green@startup.io",
      phone |-> "+1-555-0108", status |-> "disabled"],
     [id |-> 9, name |-> "George Miller", email |-> "george.m@enterprise.com",
      phone |-> "+1-555-0109", status |-> "active"],
     [id |-> 10, name |-> "Hannah Lee", email |-> "hannah.lee@global.com",
      phone |-> "+1-555-0110", status |-> "active"],
     [id |-> 11, name |-> "Isaac Newton", email |-> "isaac.n@science.edu",
      phone |-> "+1-555-0111", status |-> "active"],
     [id |-> 12, name |-> "Julia Roberts", email |-> "julia.r@movies.com",
      phone |-> "+1-555-0112", status |-> "active"],
     [id |-> 13, name |-> "Kevin Chen", email |-> "kevin.chen@tech.io",
      phone |-> "+1-555-0113", status |-> "disabled"],
     [id |-> 14, name |-> "Laura Martinez", email |-> "laura.m@solutions.com",
      phone |-> "+1-555-0114", status |-> "active"],
     [id |-> 15, name |-> "Michael Scott", email |-> "michael.scott@paper.com",
      phone |-> "+1-555-0115", status |-> "active"] >>

\* setup_database: the sample tickets as (customer_id, issue, status, priority)
SampleTicketRows ==
  << <<1, "Cannot login to account", "open", "high">>,
     <<4, "Database connection timeout errors", "in_progress", "high">>,
     <<7, "Payment processing failing", "open", "high">>,
     <<10, "Critical security vulnerability", "in_progress", "high">>,
     <<14, "Website completely down", "resolved", "high">>,
     <<1, "Password reset not working", "in_progress", "medium">>,
     <<2, "Profile image upload fails", "resolved", "medium">>,
     <<5, "Email notifications not received", "open", "medium">>,
     <<6, "Dashboard loading slowly", "in_progress", "medium">>,
     <<9, "Export to CSV broken", "open", "medium">>,
     <<11, "Mobile app crashes", "resolved", "medium">>,
     <<12, "Search returning wrong results", "in_progress", "medium">>,
     <<15, "API rate limiting too restrictive", "open", "medium">>,
     <<2, "Billing question about invoice", "resolved", "low">>,
     <<2, "Feature request: dark mode", "open", "low">>,
     <<3, "Documentation outdated", "open", "low">>,
     <<5, "Typo in welcome email", "resolved", "low">>,
     <<6, "Request language support", "open", "low">>,
     <<9, "Font size too small", "resolved", "low">>,
     <<11, "Feature request: PDF export", "open", "low">> >>

\* the tickets table after executemany: AUTOINCREMENT ids 1..20
SampleTickets ==
  [i \in DOMAIN SampleTicketRows |->
     [id |-> i, customer_id |-> SampleTicketRows[i][1],
      issue |-> SampleTicketRows[i][2], status |-> SampleTicketRows[i][3],
      priority |-> SampleTicketRows[i][4]]]

\* WHERE id = ?: the customers table is a sequence indexed by id
Exists(cs, customer_id) == customer_id \in DOMAIN cs

\* if value: an argument that is given and not the empty string
Given(opt) == opt # <<>> /\ opt[1] # ""

Take(rows, limit) ==
  IF Len(rows) <= limit THEN rows ELSE SubSeq(rows, 1, limit)

\* variant: a customer that is not found is reported without an error text
get_customer_bare(cs, ts, customer_id) ==
  IF Exists(cs, customer_id)
    THEN [ret |-> [success |-> TRUE, customer |-> cs[customer_id]],
          customers |-> cs, tickets |-> ts, conn |-> "closed"]
    ELSE [ret |-> [success |-> FALSE],
          customers |-> cs, tickets |-> ts, conn |-> "closed"]

get_customer(cs, ts, customer_id) ==
  IF Exists(cs, customer_id)
    THEN [ret |-> [success |-> TRUE, customer |-> cs[customer_id]],
          customers |-> cs, tickets |-> ts, conn |-> "closed"]
    ELSE [ret |-> [success |-> FALSE,
                   error |-> "Customer with ID " \o ToString(customer_id)
                               \o " not found"],
          customers |-> cs, tickets |-> ts, conn |-> "closed"]

list_customers(cs, ts, status, limit) ==
  IF Given(status) /\ status[1] \notin {"active", "disabled"}
    THEN [ret |-> [success |-> FALSE,
                   error |-> "Invalid status: " \o status[1]
                               \o ". Must be 'active' or 'disabled'"],
          customers |-> cs, tickets |-> ts, conn |-> "open"]
    ELSE LET rows ==
               Take(IF Given(status)
                      THEN SelectSeq(cs, LAMBDA c : c.status = status[1])
                      ELSE cs,
                    limit)
         IN [ret |-> [success |-> TRUE, customers |-> rows, count |-> Len(rows)],
             customers |-> cs, tickets |-> ts, conn |-> "closed"]

\* updates: the fields to write, in the order name, email, phone, status
Updates(name, email, phone, status) ==
  (IF Given(name) THEN <<"name">> ELSE <<>>)
  \o (IF Given(email) THEN <<"email">> ELSE <<>>)
  \o (IF Given(phone) THEN <<"phone">> ELSE <<>>)
  \o (IF Given(status) THEN <<"status">> ELSE <<>>)

\* UPDATE customers SET ... WHERE id = ?
Updated(row, name, email, phone, status) ==
  [id |-> row.id,
   name |-> IF Given(name) THEN name[1] ELSE row.name,
   email |-> IF Given(email) THEN email[1] ELSE row.email,
   phone |-> IF Given(phone) THEN phone[1] ELSE row.phone,
   status |-> IF Given(status) THEN status[1] ELSE row.status]

update_customer(cs, ts, customer_id, name, email, phone, status) ==
  IF Given(status) /\ status[1] \notin {"active", "disabled"}
    THEN [ret |-> [success |-> FALSE, error |-> "Invalid status"],
          customers |-> cs, tickets |-> ts, conn |-> "none"]
  ELSE IF Updates(name, email, phone, status) = <<>>
    THEN [ret |-> [success |-> FALSE, error |-> "No fields to update"],
          customers |-> cs, tickets |-> ts, conn |-> "none"]
  ELSE IF ~Exists(cs, customer_id)
    THEN [ret |-> [success |-> FALSE,
                   error |-> "Customer " \o ToString(customer_id) \o " not found"],
          customers |-> cs, tickets |-> ts, conn |-> "closed"]
  ELSE LET row == Updated(cs[customer_id], name, email, phone, status)
       IN [ret |-> [success |-> TRUE, customer |-> row,
                    updated_fields |-> Updates(name, email, phone, status)],
           customers |-> [cs EXCEPT ![customer_id] = row],
           tickets |-> ts, conn |-> "closed"]

\* variant: the INSERT is executed and committed before the customer is
\* looked up (the connection does not enforce foreign keys)
create_ticket_insert_first(cs, ts, customer_id, issue, priority) ==
  IF priority \notin {"low", "medium", "high"}
    THEN [ret |-> [success |-> FALSE, error |-> "Invalid priority: " \o priority],
          customers |-> cs, tickets |-> ts, conn |-> "none"]
  ELSE LET ticket == [id |-> Len(ts) + 1, customer_id |-> customer_id,
                      issue |-> issue, status |-> "open", priority |-> priority]
       IN IF ~Exists(cs, customer_id)
            THEN [ret |-> [success |-> FALSE,
                           error |-> "Customer " \o ToString(customer_id)
                                       \o " not found"],
                  customers |-> cs, tickets |-> Append(ts, ticket),
                  conn |-> "closed"]
            ELSE [ret |-> [success |-> TRUE, ticket |-> ticket,
                           customer_name |-> cs[customer_id].name],
                  customers |-> cs, tickets |-> Append(ts, ticket),
                  conn |-> "closed"]

create_ticket(cs, ts, customer_id, issue, priority) ==
  IF priority \notin {"low", "medium", "high"}
    THEN [ret |-> [success |-> FALSE, error |-> "Invalid priority: " \o priority],
          customers |-> cs, tickets |-> ts, conn |-> "none"]
  ELSE IF ~Exists(cs, customer_id)
    THEN [ret |-> [success |-> FALSE,
                   error |-> "Customer " \o ToString(customer_id) \o " not found"],
          customers |-> cs, tickets |-> ts, conn |-> "closed"]
  ELSE LET ticket == [id |-> Len(ts) + 1, customer_id |-> customer_id,
                      issue |-> issue, status |-> "open", priority |-> priority]
       IN [ret |-> [success |-> TRUE, ticket |-> ticket,
                    customer_name |-> cs[customer_id].name],
           customers |-> cs, tickets |-> Append(ts, ticket), conn |-> "closed"]

\* the rows come ORDER BY created_at DESC; the model has no time, so they
\* are given in the order of insertion
get_customer_history(cs, ts, customer_id) ==
  IF ~Exists(cs, customer_id)
    THEN [ret |-> [success |-> FALSE,
                   error |-> "Customer " \o ToString(customer_id) \o " not found"],
          customers |-> cs, tickets |-> ts, conn |-> "closed"]
  ELSE LET mine == SelectSeq(ts, LAMBDA t : t.customer_id = customer_id)
       IN [ret |-> [success |-> TRUE,
                    customer |-> cs[customer_id],
                    tickets |-> [i \in DOMAIN mine |->
                                   [id |-> mine[i].id, issue |-> mine[i].issue,
                                    status |-> mine[i].status,
                                    priority |-> mine[i].priority]],
                    statistics |->
                      [total_tickets |-> Len(mine),
                       open_tickets |-> Len(SelectSeq(mine, LAMBDA t : t.status = "open")),
                       in_progress_tickets |->
                         Len(SelectSeq(mine, LAMBDA t : t.status = "in_progress")),
                       resolved_tickets |->
                         Len(SelectSeq(mine, LAMBDA t : t.status = "resolved")),
                       high_priority |->
                         Len(SelectSeq(mine, LAMBDA t : t.priority = "high"))]],
           customers |-> cs, tickets |-> ts, conn |-> "closed"]

\* the rows come ORDER BY created_at DESC; given in the order of insertion
get_tickets_by_priority(cs, ts, priority, status) ==
  IF priority \notin {"low", "medium", "high"}
    THEN [ret |-> [success |-> FALSE, error |-> "Invalid priority: " \o priority],
          customers |-> cs, tickets |-> ts, conn |-> "none"]
  ELSE LET rows ==
             SelectSeq(ts, LAMBDA t :
               /\ t.priority = priority
               /\ Given(status) => t.status = status[1]
               /\ Exists(cs, t.customer_id))
       IN [ret |-> [success |-> TRUE,
                    tickets |-> [i \in DOMAIN rows |->
                                   [id |-> rows[i].id,
                                    customer_id |-> rows[i].customer_id,
                                    issue |-> rows[i].issue,
                                    status |-> rows[i].status,
                                    priority |-> rows[i].priority,
                                    customer_name |->
                                      cs[rows[i].customer_id].name]],
                    count |-> Len(rows)],
           customers |-> cs, tickets |-> ts, conn |-> "closed"]

\* the customers come ORDER BY name and their tickets by priority; the
\* model gives both in the order of their ids
get_active_customers_with_open_tickets(cs, ts) ==
  LET OpenOf(c) ==
        SelectSeq(ts, LAMBDA t : t.customer_id = c.id /\ t.status = "open")
      active == SelectSeq(cs, LAMBDA c : c.status = "active" /\ OpenOf(c) # <<>>)
      result == [i \in DOMAIN active |->
                   [customer |-> active[i], open_tickets |-> OpenOf(active[i])]]
  IN [ret |-> [success |-> TRUE,
               customers |-> result,
               total_customers |-> Len(result),
               total_open_tickets |->
                 Cardinality({i \in DOMAIN ts :
                   /\ ts[i].status = "open"
                   /\ \E k \in DOMAIN active : active[k].id = ts[i].customer_id})],
      customers |-> cs, tickets |-> ts, conn |-> "closed"]

\* the database after setup_database, no tool called yet
InitStore ==
  /\ customers = SampleCustomers
  /\ tickets = SampleTickets
  /\ db_open = 0
  /\ tool_call = [tool |-> "none"]
  /\ tool_ret = [success |-> TRUE]

(***************************************************************************)
(* Capability descriptors: create_agent_card of router_agent.py and of     *)
(* customer_data_agent.py, AGENT_CARD of support_agent.py                  *)
(***************************************************************************)
Skill(id, name, description) ==
  [id |-> id, name |-> name, description |-> description]

router_create_agent_card ==
  [name |-> "router_agent",
   description |->
     "Router/Orchestrator Agent - Analyzes queries and coordinates specialist agents",
   version |-> "1.0.0",
   url |-> "http://localhost:8003",
   capabilities |-> [streaming |-> FALSE, pushNotifications |-> FALSE],
   skills |->
     << Skill("analyze_intent", "Analyze Intent",
              "Analyze customer query to detect intents and parameters"),
        Skill("route_to_data_agent", "Route to Data Agent",
              "Route request to Customer Data Agent via A2A"),
        Skill("route_to_support_agent", "Route to Support Agent",
              "Route request to Support Agent via A2A"),
        Skill("coordinate_multi_agent", "Coordinate Multi-Agent",
              "Coordinate requests requiring multiple agents"),
        Skill("synthesize_response", "Synthesize Response",
              "Synthesize final response from multiple agents") >>,
   defaultInputModes |-> <<"text">>,
   defaultOutputModes |-> <<"text">>,
   subordinateAgents |->
     << [name |-> "customer_data_agent", url |-> "http://localhost:8001",
         description |-> "Specialist for customer data operations"],
        [name |-> "support_agent", url |-> "http://localhost:8002",
         description |-> "Specialist for customer support operations"] >>]

data_create_agent_card ==
  [name |-> "customer_data_agent",
   description |-> "Customer Data Agent - Accesses customer database via MCP",
   version |-> "1.0.0",
   url |-> "http://localhost:8001",
   capabilities |-> [streaming |-> FALSE, pushNotifications |-> FALSE],
   skills |->
     << Skill("get_customer", "Get Customer",
              "Retrieve customer information by ID"),
        Skill("list_customers", "List Customers",
              "List customers with optional filters"),
        Skill("update_customer", "Update Customer",
              "Update customer information"),
        Skill("get_customer_history", "Get Customer History",
              "Get ticket history for a customer"),
        Skill("create_ticket", "Create Ticket",
              "Create a new support ticket"),
        Skill("get_active_customers_with_open_tickets",
              "Get Active Customers with Open Tickets",
              "Get all active customers who have open tickets") >>,
   defaultInputModes |-> <<"text">>,
   defaultOutputModes |-> <<"text">>]

\* fields of the card's class that are None unless the constructor sets them
OptionalCardFields == {"provider", "documentationUrl"}

\* AgentCard(...): the module-level card of the support agent
SupportAgentCard ==
  [name |-> "support_agent",
   description |->
     "Support Agent - Handles customer support operations including billing issues, cancellations, upgrades, and urgent issues.",
   url |-> "http://localhost:8002",
   version |-> "1.0.0",
   capabilities |-> [streaming |-> FALSE, pushNotifications |-> FALSE],
   defaultInputModes |-> <<"text">>,
   defaultOutputModes |-> <<"text">>,
   skills |->
     << Skill("handle_billing", "Handle Billing",
              "Handle billing-related issues and refunds"),
        Skill("handle_cancellation", "Handle Cancellation",
              "Process cancellation requests with retention offers"),
        Skill("handle_upgrade", "Handle Upgrade",
              "Assist with account upgrades"),
        Skill("handle_urgent", "Handle Urgent",
              "Escalate and handle urgent/emergency issues"),
        Skill("general_support", "General Support",
              "Provide general customer support assistance") >>,
   provider |-> <<>>,
   documentationUrl |-> <<>>]

\* model_dump(exclude_none=True): the card as a dict without the fields
\* that are None
model_dump(card) ==
  LET unset == {f \in OptionalCardFields \cap DOMAIN card : card[f] = <<>>}
  IN [f \in DOMAIN card \ unset |->
        IF f \in OptionalCardFields THEN card[f][1] ELSE card[f]]

\* the body of the support agent's GET /.well-known/agent.json
agent_card_handler(card) == model_dump(card)

Nodes == {"router_agent", "customer_data_agent", "support_agent"}

\* what a node returns when it is asked for its descriptor
Descriptor(node, card) ==
  CASE node = "router_agent" -> router_create_agent_card
    [] node = "customer_data_agent" -> data_create_agent_card
    [] node = "support_agent" -> agent_card_handler(card)

(***************************************************************************)
(* MCPClientWrapper of customer_data_agent.py.  A caller is a coroutine    *)
(* that runs call_tool or list_tools; it gives up control at each await.   *)
(***************************************************************************)
Callers == 1..MaxCallers

WrapperOps == {"call_tool", "list_tools"}

IdleCoro == [at |-> "idle", op |-> "none", conn |-> 0, target |-> 0]

\* mcp_client = MCPClientWrapper(MCP_SERVER_URL), and the module-level card
InitNodes ==
  /\ AGENT_CARD = SupportAgentCard
  /\ described = [n \in Nodes |-> <<>>]
  /\ coro = [c \in Callers |-> IdleCoro]
  /\ session = 0
  /\ streams = 0
  /\ sse_opened = 0
  /\ sessions = <<>>
  /\ issued = <<>>

\* self._session.call_tool(...) / self._session.list_tools(): the request
\* goes out on the session the attribute names at that moment
Issue(c, op, sid, ss) ==
  [caller |-> c, op |-> op, session |-> sid, initialized |-> ss[sid].initialized]

(***************************************************************************)
(* Query texts and tool arguments                                          *)
(***************************************************************************)
\* the demo's scenarios (main.py run_demo, the notebook's test_scenarios),
\* the unmatched query, and queries that touch both groups or one twice
ScenarioQueries ==
  { <<"G","e","t"," ","c","u","s","t","o","m","e","r"," ","i","n","f","o","r","m","a","t","i","o","n"," ","f","o","r"," ","I","D"," ","5">>,
    <<"I","'","m"," ","c","u","s","t","o","m","e","r"," ","1"," ","a","n","d"," ","n","e","e","d"," ","h","e","l","p"," ","u","p","g","r","a","d","i","n","g"," ","m","y"," ","a","c","c","o","u","n","t">>,
    <<"S","h","o","w"," ","m","e"," ","a","l","l"," ","a","c","t","i","v","e"," ","c","u","s","t","o","m","e","r","s"," ","w","h","o"," ","h","a","v","e"," ","o","p","e","n"," ","t","i","c","k","e","t","s">>,
    <<"I","'","v","e"," ","b","e","e","n"," ","c","h","a","r","g","e","d"," ","t","w","i","c","e",","," ","p","l","e","a","s","e"," ","r","e","f","u","n","d"," ","i","m","m","e","d","i","a","t","e","l","y","!">>,
    <<"U","p","d","a","t","e"," ","m","y"," ","e","m","a","i","l"," ","t","o"," ","n","e","w","@","e","m","a","i","l",".","c","o","m"," ","a","n","d"," ","s","h","o","w"," ","m","y"," ","t","i","c","k","e","t"," ","h","i","s","t","o","r","y"," ","f","o","r"," ","c","u","s","t","o","m","e","r"," ","I","D"," ","2">>,
    <<"U","p","d","a","t","e"," ","m","y"," ","e","m","a","i","l"," ","t","o"," ","n","e","w","@","e","m","a","i","l",".","c","o","m"," ","a","n","d"," ","s","h","o","w"," ","t","i","c","k","e","t"," ","h","i","s","t","o","r","y"," ","f","o","r"," ","c","u","s","t","o","m","e","r"," ","I","D"," ","2">>,
    <<"a","s","d","k","j","h">>,
    <<"G","e","t"," ","c","u","s","t","o","m","e","r"," ","0"," ","a","n","d"," ","u","p","g","r","a","d","e">>,
    <<"C","a","n","c","e","l"," ","m","y"," ","a","c","c","o","u","n","t"," ","a","n","d"," ","s","h","o","w"," ","m","y"," ","t","i","c","k","e","t","s"," ","A","S","A","P">>,
    <<"c","a","n","c","e","l",","," ","u","r","g","e","n","t">> }

Vocabulary ==
  { <<"G","e","t"," ","c","u","s","t","o","m","e","r">>, <<" ","I","D"," ","1","2">>, <<"s","h","o","w">>, <<" ","m","y"," ","t","i","c","k","e","t","s">>, <<" ","a","l","l">>,
    <<"\n">>, <<"u","p","d","a","t","e">>, <<" ","e","m","a","i","l"," ","a","_","b","@","c","-","d",".","e",".","f","g">>, <<"r","e","f","u","n","d">>,
    <<"u","p","g","r","a","d","e">>, <<"A","S","A","P">>, <<"a","s","d","k","j","h">>, <<" ","c","u","s","t","o","m","e","r"," ","#","7">>, <<"c","a","n","c","e","l">> }

RECURSIVE QueriesOfLen(_)
QueriesOfLen(n) ==
  IF n = 0 THEN {<<>>}
  ELSE {q \o f : q \in QueriesOfLen(n - 1), f \in Vocabulary}

BoundedQueries == UNION {QueriesOfLen(n) : n \in 0..MaxFrags}

\* intent lists and parameters the calling agent may pass to
\* coordinate_multi_agent_request besides those analyze_intent returned
OtherIntentLists ==
  { <<>>, <<"view_history">>, <<"upgrade", "get_customer_info">>,
    <<"billing", "report">> }

OtherParams == { [customer_id |-> <<0>>, email |-> <<>>] }

(***************************************************************************)
(* State                                                                   *)
(***************************************************************************)
Agents == {"customer_data_agent", "support_agent"}

NoAnalysis ==
  [success |-> FALSE, original_query |-> <<>>, detected_intents |-> <<>>,
   extracted_parameters |-> [customer_id |-> <<>>, email |-> <<>>],
   is_multi_intent |-> FALSE, routing |-> <<>>, priority |-> "NORMAL"]

NoNotebook ==
  [query |-> <<>>, intents |-> <<>>,
   params |-> [customer_id |-> <<>>, email |-> <<>>],
   is_multi_intent |-> FALSE]

NoArgs ==
  [query |-> <<>>, intents |-> <<>>,
   params |-> [customer_id |-> <<>>, email |-> <<>>]]

NoEnvelope ==
  [success |-> FALSE, coordination_type |-> "none", intents_processed |-> <<>>,
   agents_called |-> 0, results |-> <<>>]

NoSynth ==
  [success |-> FALSE, original_query |-> <<>>, agents_consulted |-> 0,
   successful_responses |-> 0, failed_responses |-> 0, summary |-> <<>>,
   results |-> <<>>]

Init ==
  /\ pc = "idle"
  /\ query = <<>>
  /\ analysis = NoAnalysis
  /\ notebook = NoNotebook
  /\ args = NoArgs
  /\ call = [a \in Agents |-> "none"]
  /\ reply = [a \in Agents |-> NoReply]
  /\ sent = [a \in Agents |-> <<>>]
  /\ results = <<>>
  /\ envelope = NoEnvelope
  /\ synth = NoSynth
  /\ clients = [a \in Agents |-> <<>>]
  /\ demo = <<>>
  /\ InitStore
  /\ InitNodes

dispatch_vars ==
  <<args, call, reply, sent, results, envelope, synth, clients>>

(***************************************************************************)
(* Operations                                                              *)
(***************************************************************************)
\* the router's analyze_intent tool is called on a query
AnalyzeIntent(Q) ==
  /\ UNCHANGED <<store_vars, node_vars>>
  /\ pc = "idle"
  /\ \E q \in Q :
       /\ query' = q
       /\ analysis' = analyze_intent(q)
  /\ pc' = "analyzed"
  /\ UNCHANGED <<notebook, dispatch_vars, demo>>

\* the notebook's analyze_intent is called on a query
ColabAnalyzeIntent(Q) ==
  /\ UNCHANGED <<store_vars, node_vars>>
  /\ pc = "idle"
  /\ \E q \in Q :
       /\ query' = q
       /\ notebook' = colab_analyze_intent(q)
  /\ pc' = "colab_analyzed"
  /\ UNCHANGED <<analysis, dispatch_vars, demo>>

\* variant: the request is posted a second time, as a new task on a new client
PostTwice(agent, message) ==
  /\ sent' = [sent EXCEPT ![agent] =
                @ \o <<TaskRequest(message, FreshTaskId(sent)),
                       TaskRequest(message, FreshTaskId(sent) + 1)>>]
  /\ clients' = [clients EXCEPT ![agent] = @ \o <<ClientOpened, ClientOpened>>]
  /\ call' = [call EXCEPT ![agent] = "InFlight"]

\* send_task up to its await of client.post: the task is created, a client
\* is opened for it and the request is on the wire
Post(agent, message) ==
  /\ sent' = [sent EXCEPT ![agent] =
                Append(@, TaskRequest(message, FreshTaskId(sent)))]
  /\ clients' = [clients EXCEPT ![agent] = Append(@, ClientOpened)]
  /\ call' = [call EXCEPT ![agent] = "InFlight"]

\* coordinate_multi_agent_request from its call to its first await, or to
\* its return when no intent is of either group
Coordinate ==
  /\ UNCHANGED <<store_vars, node_vars>>
  /\ pc = "analyzed"
  /\ \E intents \in {analysis.detected_intents} \cup OtherIntentLists,
        params \in {analysis.extracted_parameters} \cup OtherParams :
       /\ args' = [query |-> query, intents |-> intents, params |-> params]
       /\ IF DataIntents(intents) # <<>>
            THEN /\ Post("customer_data_agent",
                         DataRequest(query, intents, params))
                 /\ pc' = "await_data"
                 /\ UNCHANGED envelope
            ELSE IF SupportIntents(intents) # <<>>
              THEN /\ Post("support_agent", SupportRequest(query, intents))
                   /\ pc' = "await_support"
                   /\ UNCHANGED envelope
              ELSE /\ envelope' = CoordinateReturn(intents, results)
                   /\ pc' = "coordinated"
                   /\ UNCHANGED <<sent, call, clients>>
  /\ UNCHANGED <<query, analysis, notebook, reply, results, synth, demo>>

\* the POST to the customer data agent resolves: from the await of
\* route_to_customer_data_agent to the next await, or to the return
DataReply ==
  /\ UNCHANGED <<store_vars, node_vars>>
  /\ pc = "await_data"
  /\ \E r \in Replies :
       LET out == route_to_customer_data_agent(r)
           rs == AppendResult(results, out.value)
       IN /\ reply' = [reply EXCEPT !["customer_data_agent"] = r]
          /\ IF out.raised
               THEN /\ pc' = "raised"
                    /\ call' = [call EXCEPT !["customer_data_agent"] = "Resolved"]
                    /\ clients' = [clients EXCEPT
                         !["customer_data_agent"] = CloseLast(@, r)]
                    /\ UNCHANGED <<results, sent, envelope>>
               ELSE /\ results' = rs
                    /\ IF SupportIntents(args.intents) # <<>>
                         THEN /\ sent' = [sent EXCEPT !["support_agent"] =
                                   Append(@, TaskRequest(
                                     SupportRequest(args.query, args.intents),
                                     FreshTaskId(sent)))]
                              /\ call' = [call EXCEPT
                                   !["customer_data_agent"] = "Resolved",
                                   !["support_agent"] = "InFlight"]
                              /\ clients' = [clients EXCEPT
                                   !["customer_data_agent"] = CloseLast(@, r),
                                   !["support_agent"] = Append(@, ClientOpened)]
                              /\ pc' = "await_support"
                              /\ UNCHANGED envelope
                         ELSE /\ call' = [call EXCEPT
                                   !["customer_data_agent"] = "Resolved"]
                              /\ clients' = [clients EXCEPT
                                   !["customer_data_agent"] = CloseLast(@, r)]
                              /\ envelope' = CoordinateReturn(args.intents, rs)
                              /\ pc' = "coordinated"
                              /\ UNCHANGED sent
  /\ UNCHANGED <<query, analysis, notebook, args, synth, demo>>

\* the POST to the support agent resolves: from the await of
\* route_to_support_agent to the return
SupportReply ==
  /\ UNCHANGED <<store_vars, node_vars>>
  /\ pc = "await_support"
  /\ \E r \in Replies :
       LET out == route_to_support_agent(r)
           rs == AppendResult(results, out.value)
       IN /\ reply' = [reply EXCEPT !["support_agent"] = r]
          /\ call' = [call EXCEPT !["support_agent"] = "Resolved"]
          /\ clients' = [clients EXCEPT !["support_agent"] = CloseLast(@, r)]
          /\ IF out.raised
               THEN /\ pc' = "raised"
                    /\ UNCHANGED <<results, envelope>>
               ELSE /\ results' = rs
                    /\ envelope' = CoordinateReturn(args.intents, rs)
                    /\ pc' = "coordinated"
  /\ UNCHANGED <<query, analysis, notebook, args, sent, synth, demo>>

\* synthesize_response on the results of the dispatch
Synthesize ==
  /\ UNCHANGED <<store_vars, node_vars>>
  /\ pc = "coordinated"
  /\ synth' = synthesize_response(envelope.results, args.query)
  /\ pc' = "synthesized"
  /\ UNCHANGED <<query, analysis, notebook, args, call, reply, sent, results,
                 envelope, clients, demo>>

\* the request is over; the next query starts from a clean slate
NextQuery ==
  /\ UNCHANGED <<store_vars, node_vars>>
  /\ pc \in {"analyzed", "colab_analyzed", "coordinated", "synthesized", "raised",
            "demo_posted"}
  /\ pc' = "idle"
  /\ query' = <<>>
  /\ analysis' = NoAnalysis
  /\ notebook' = NoNotebook
  /\ args' = NoArgs
  /\ call' = [a \in Agents |-> "none"]
  /\ reply' = [a \in Agents |-> NoReply]
  /\ sent' = [a \in Agents |-> <<>>]
  /\ results' = <<>>
  /\ envelope' = NoEnvelope
  /\ synth' = NoSynth
  /\ clients' = [a \in Agents |-> <<>>]
  /\ demo' = <<>>

\* the demo's test client sends a scenario query to the router:
\* A2ATestClient.send_message up to its await of client.post
SendMessage ==
  /\ UNCHANGED <<store_vars, node_vars>>
  /\ pc \in {"idle", "demo_posted"}
  /\ Len(demo) < MaxDemo
  /\ \E q \in ScenarioQueries :
       demo' = Append(demo, send_message_request(
                 q, FreshTaskId([c \in {"router_agent"} |-> demo])))
  /\ pc' = "demo_posted"
  /\ UNCHANGED <<query, analysis, notebook, dispatch_vars>>

AnalyzeScenario == AnalyzeIntent(ScenarioQueries)

AnalyzeBounded == AnalyzeIntent(BoundedQueries)

ColabAnalyzeBounded == ColabAnalyzeIntent(BoundedQueries)

ColabAnalyzeScenario == ColabAnalyzeIntent(ScenarioQueries)

Next ==
  \/ AnalyzeScenario
  \/ Coordinate
  \/ DataReply
  \/ SupportReply
  \/ Synthesize
  \/ SendMessage
  \/ NextQuery

Spec == Init /\ [][Next]_vars

\* every POST resolves: the client's timeout (30 s) ends a call no reply ends,
\* and the event loop resumes the coroutine that awaits it
SpecLive == Spec /\ WF_vars(DataReply) /\ WF_vars(SupportReply)

NextClassify ==
  \/ AnalyzeBounded
  \/ ColabAnalyzeBounded
  \/ AnalyzeScenario
  \/ ColabAnalyzeScenario
  \/ NextQuery

SpecClassify == Init /\ [][NextClassify]_vars

(***************************************************************************)
(* Operations of the data store                                            *)
(***************************************************************************)
CustomerIdArgs == {1, 3, 99}

WriteIdArgs == {1, 99}

NameArgs == {<<>>, <<"Ann Lee">>}

EmailArgs == {<<>>, <<"">>, <<"new@email.com">>}

PhoneArgs == {<<>>}

StatusArgs == {<<>>, <<"disabled">>, <<"deleted">>}

ListStatusArgs == {<<>>, <<"active">>, <<"archived">>}

LimitArgs == {2, 100}

PriorityArgs == {"high", "urgent"}

TicketStatusArgs == {<<>>, <<"open">>}

\* a tool has run to its return: the tables, the connections left open and
\* the returned value are those of the run
Ran(name, arguments, run) ==
  /\ tool_call' = [tool |-> name, arguments |-> arguments]
  /\ tool_ret' = run.ret
  /\ customers' = run.customers
  /\ tickets' = run.tickets
  /\ db_open' = IF run.conn = "open" THEN db_open + 1 ELSE db_open
  /\ UNCHANGED <<router_vars, node_vars>>

GetCustomer ==
  \E id \in CustomerIdArgs :
    Ran("get_customer", <<id>>, get_customer(customers, tickets, id))

ListCustomers ==
  /\ db_open < MaxLeaked
  /\ \E status \in ListStatusArgs, limit \in LimitArgs :
       Ran("list_customers", <<status, limit>>,
           list_customers(customers, tickets, status, limit))

UpdateCustomer ==
  \E id \in WriteIdArgs, name \in NameArgs, email \in EmailArgs,
     phone \in PhoneArgs, status \in StatusArgs :
    Ran("update_customer", <<id, name, email, phone, status>>,
        update_customer(customers, tickets, id, name, email, phone, status))

CreateTicket ==
  /\ Len(tickets) < Len(SampleTickets) + MaxNewTickets
  /\ \E id \in WriteIdArgs, priority \in PriorityArgs :
       Ran("create_ticket", <<id, "Cannot pay", priority>>,
           create_ticket(customers, tickets, id, "Cannot pay", priority))

GetCustomerHistory ==
  \E id \in CustomerIdArgs :
    Ran("get_customer_history", <<id>>,
        get_customer_history(customers, tickets, id))

GetTicketsByPriority ==
  \E priority \in PriorityArgs, status \in TicketStatusArgs :
    Ran("get_tickets_by_priority", <<priority, status>>,
        get_tickets_by_priority(customers, tickets, priority, status))

GetActiveCustomersWithOpenTickets ==
  Ran("get_active_customers_with_open_tickets", <<>>,
      get_active_customers_with_open_tickets(customers, tickets))

\* the interpreter finalizes a connection object nothing refers to
Finalize ==
  /\ db_open > 0
  /\ db_open' = db_open - 1
  /\ UNCHANGED <<customers, tickets, tool_call, tool_ret, router_vars, node_vars>>

NextStore ==
  \/ GetCustomer
  \/ ListCustomers
  \/ UpdateCustomer
  \/ CreateTicket
  \/ GetCustomerHistory
  \/ GetTicketsByPriority
  \/ GetActiveCustomersWithOpenTickets
  \/ Finalize

SpecStore == Init /\ [][NextStore]_vars

(***************************************************************************)
(* Operations of the nodes: descriptors and the MCP client wrapper         *)
(***************************************************************************)
wrapper_vars == <<coro, session, streams, sse_opened, sessions, issued>>

\* variant: serving the card takes its last skill off the card
DescribeConsuming(node) ==
  /\ Len(described[node]) < MaxDescribe
  /\ described' = [described EXCEPT
                     ![node] = Append(@, Descriptor(node, AGENT_CARD))]
  /\ AGENT_CARD' = IF node = "support_agent"
                     THEN [AGENT_CARD EXCEPT
                             !.skills = SubSeq(@, 1, Len(@) - 1)]
                     ELSE AGENT_CARD
  /\ UNCHANGED <<wrapper_vars, router_vars, store_vars>>

\* a node is asked for its capability descriptor
Describe(node) ==
  /\ Len(described[node]) < MaxDescribe
  /\ described' = [described EXCEPT
                     ![node] = Append(@, Descriptor(node, AGENT_CARD))]
  /\ UNCHANGED <<AGENT_CARD, wrapper_vars, router_vars, store_vars>>

DescribeNode == \E node \in Nodes : Describe(node)

\* call_tool / list_tools from the call to the first await: either the
\* session attribute is unset and connect() starts opening a connection,
\* or the request is issued on the session the attribute names
CallWrapper(c) ==
  /\ coro[c].at = "idle"
  /\ \E op \in WrapperOps :
       IF session = 0
         THEN /\ sse_opened' = sse_opened + 1
              /\ streams' = sse_opened + 1
              /\ coro' = [coro EXCEPT ![c] =
                   [at |-> "aenter_streams", op |-> op,
                    conn |-> sse_opened + 1, target |-> 0]]
              /\ UNCHANGED <<session, sessions, issued>>
         ELSE /\ issued' = Append(issued, Issue(c, op, session, sessions))
              /\ coro' = [coro EXCEPT ![c] =
                   [at |-> "await_call", op |-> op, conn |-> 0, target |-> 0]]
              /\ UNCHANGED <<session, streams, sse_opened, sessions>>
  /\ UNCHANGED <<AGENT_CARD, described, router_vars, store_vars>>

\* connect(): the connection is open; a session is made on its streams,
\* stored in the attribute, and entered
StreamsEntered(c) ==
  /\ coro[c].at = "aenter_streams"
  /\ sessions' = Append(sessions, [conn |-> coro[c].conn,
                                   entered |-> FALSE, initialized |-> FALSE])
  /\ session' = Len(sessions) + 1
  /\ coro' = [coro EXCEPT ![c].at = "aenter_session",
                          ![c].target = Len(sessions) + 1]
  /\ UNCHANGED <<streams, sse_opened, issued, AGENT_CARD, described,
                 router_vars, store_vars>>

\* connect(): the session is entered; initialize() is called on the
\* session the attribute names now
SessionEntered(c) ==
  /\ coro[c].at = "aenter_session"
  /\ sessions' = [sessions EXCEPT ![coro[c].target].entered = TRUE]
  /\ coro' = [coro EXCEPT ![c].at = "initializing", ![c].target = session]
  /\ UNCHANGED <<session, streams, sse_opened, issued, AGENT_CARD, described,
                 router_vars, store_vars>>

\* connect() returns when initialize() has completed; the request is then
\* issued on the session the attribute names now
Initialized(c) ==
  /\ coro[c].at = "initializing"
  /\ LET ss == [sessions EXCEPT ![coro[c].target].initialized = TRUE]
     IN /\ sessions' = ss
        /\ issued' = Append(issued, Issue(c, coro[c].op, session, ss))
  /\ coro' = [coro EXCEPT ![c].at = "await_call"]
  /\ UNCHANGED <<session, streams, sse_opened, AGENT_CARD, described,
                 router_vars, store_vars>>

\* the server's answer resumes the caller, which returns
ToolReturned(c) ==
  /\ coro[c].at = "await_call"
  /\ coro' = [coro EXCEPT ![c].at = "returned"]
  /\ UNCHANGED <<session, streams, sse_opened, sessions, issued, AGENT_CARD,
                 described, router_vars, store_vars>>

NextCards == DescribeNode

SpecCards == Init /\ [][NextCards]_vars

NextWrapper ==
  \/ \E c \in Callers : CallWrapper(c)
  \/ \E c \in Callers : StreamsEntered(c)
  \/ \E c \in Callers : SessionEntered(c)
  \/ \E c \in Callers : Initialized(c)
  \/ \E c \in Callers : ToolReturned(c)

SpecWrapper == Init /\ [][NextWrapper]_vars

(***************************************************************************)
(* Vocabulary of the properties                                            *)
(***************************************************************************)
Done == pc \in {"coordinated", "synthesized"}

HasData(intents) ==
  \E i \in DOMAIN intents : InList(intents[i], data_agent_intents)

HasSupport(intents) ==
  \E i \in DOMAIN intents : InList(intents[i], support_agent_intents)

\* the services a list of intents targets, in the fixed order
Targets(intents) ==
  (IF HasData(intents) THEN <<"customer_data_agent">> ELSE <<>>)
  \o (IF HasSupport(intents) THEN <<"support_agent">> ELSE <<>>)

AgentsOf(rs) == [i \in DOMAIN rs |-> rs[i].agent]

RoutedAgents(routing) == {routing[i].agent : i \in DOMAIN routing}

OutcomesOf(a) == {i \in DOMAIN results : results[i].agent = a}

OutcomeOf(a) == results[CHOOSE i \in DOMAIN results : results[i].agent = a]

\* the outcome without the name of the service it came from
Payload(o) ==
  IF o.success THEN [success |-> TRUE, response |-> o.response]
  ELSE [success |-> FALSE, error |-> o.error]

\* failures that reach the client as an exception
RaisesInClient(r) ==
  \/ r.kind \in {"connect_error", "timeout"}
  \/ r.kind = "http" /\ r.status = 200 /\ ~IsJson(r.text)

\* connection failure, timeout, non-200 status, unparseable body, or a 200
\* reply without a result member
TransportFailure(r) ==
  \/ r.kind \in {"connect_error", "timeout"}
  \/ r.kind = "http" /\ r.status # 200
  \/ r.kind = "http" /\ r.status = 200 /\ ~IsJson(r.text)
  \/ r.kind = "http" /\ r.status = 200 /\ IsJson(r.text)
       /\ "result" \notin DOMAIN Json(r.text)

\* a 200 reply whose result carries the service's own success:false envelope
AppLevelError(r) == r.kind = "http" /\ r.status = 200 /\ r.text = AppErrorText

GoodReply(r) == r.kind = "http" /\ r.status = 200 /\ r.text = TaskResultText

(***************************************************************************)
(* Properties                                                              *)
(***************************************************************************)
\* C1: for every query text, analyze_intent (the router's and the
\* notebook's) returns a non-empty list of detected intents.
C1_IntentsNonEmpty ==
  /\ pc = "analyzed" => Len(analysis.detected_intents) >= 1
  /\ pc = "colab_analyzed" => Len(notebook.intents) >= 1

\* C1 case: a non-empty query no trigger matches has been classified
C1_Witness ==
  /\ pc = "analyzed"
  /\ Len(query) > 0
  /\ analysis.detected_intents = <<"general_support">>

\* C2: coordinate_multi_agent_request returns exactly one outcome per
\* targeted service, in the order customer_data_agent, support_agent.
C2_OneOutcomePerTargetInOrder ==
  Done => AgentsOf(envelope.results) = Targets(args.intents)

\* C2 case: both services targeted, the first one slow (it timed out), and
\* the dispatch has returned
C2_Witness ==
  /\ pc = "coordinated"
  /\ Targets(args.intents) = <<"customer_data_agent", "support_agent">>
  /\ reply["customer_data_agent"].kind = "timeout"
  /\ GoodReply(reply["support_agent"])
  /\ Len(envelope.results) = 2

\* C3: when both services are targeted the two calls are issued
\* concurrently: while the first call is in flight the second one has been
\* started too.
C3_BothCallsInFlight ==
  (pc = "await_data" /\ HasSupport(args.intents))
    => call["support_agent"] = "InFlight"

\* C4: a failed downstream call never aborts the dispatch: no exception
\* leaves it, every targeted service has been called and has exactly one
\* recorded outcome when it returns, no call is still in flight then, and a
\* call that failed is recorded as a success=false outcome carrying the error.
C4_FailureDoesNotAbort ==
  /\ pc # "raised"
  /\ Done =>
       /\ \A a \in Agents : call[a] # "InFlight"
       /\ \A i \in DOMAIN Targets(args.intents) :
            LET a == Targets(args.intents)[i]
            IN /\ call[a] = "Resolved"
               /\ Len(sent[a]) = 1
               /\ Cardinality(OutcomesOf(a)) = 1
               /\ RaisesInClient(reply[a]) =>
                    /\ ~OutcomeOf(a).success
                    /\ OutcomeOf(a).error = send_task(reply[a]).value
       /\ envelope.results = results

\* C4 case: the first call failed to connect, the second one succeeded, and
\* the dispatch has returned both outcomes
C4_Witness ==
  /\ pc = "coordinated"
  /\ reply["customer_data_agent"].kind = "connect_error"
  /\ GoodReply(reply["support_agent"])
  /\ Len(envelope.results) = 2
  /\ ~envelope.results[1].success
  /\ envelope.results[2].success

\* C5: every transport-level failure of a task submission (connection
\* failure, timeout, non-200 status, unparseable body, 200 reply without a
\* result member) gives a success=false outcome for that service.
C5_TransportFailureIsFailedOutcome ==
  \A a \in Agents :
    (call[a] = "Resolved" /\ TransportFailure(reply[a]) /\ OutcomesOf(a) # {})
      => ~OutcomeOf(a).success

\* C6: an application-level error inside a 200 reply is passed through as
\* the data of a successful outcome, and that outcome differs from the
\* outcome of every transport failure.
C6_AppErrorPassedThroughAndDistinct ==
  \A a \in Agents :
    (call[a] = "Resolved" /\ AppLevelError(reply[a]) /\ OutcomesOf(a) # {}) =>
      /\ OutcomeOf(a).success
      /\ OutcomeOf(a).response = Json(reply[a].text)
      /\ \A b \in Agents :
           (call[b] = "Resolved" /\ TransportFailure(reply[b])
              /\ OutcomesOf(b) # {})
             => Payload(OutcomeOf(a)) # Payload(OutcomeOf(b))

\* C6 case: one service answered 200 with an application-level error, the
\* other one answered 500 with the same body
C6_Witness ==
  /\ pc = "coordinated"
  /\ AppLevelError(reply["support_agent"])
  /\ reply["customer_data_agent"] =
       [kind |-> "http", status |-> 500, text |-> AppErrorText]
  /\ Len(results) = 2

\* C7: the success flag of synthesize_response is true iff every outcome of
\* its input list succeeded, and the response carries that list.
C7_OverallSuccessIffAllSucceeded ==
  pc = "synthesized" =>
    /\ synth.success <=>
         \A i \in DOMAIN envelope.results : envelope.results[i].success
    /\ synth.results = envelope.results
    /\ synth.agents_consulted = Len(envelope.results)

\* C7 case: a response was synthesized from one failed and one successful
\* outcome
C7_Witness ==
  /\ pc = "synthesized"
  /\ Len(synth.results) = 2
  /\ ~synth.results[1].success
  /\ synth.results[2].success
  /\ ~synth.success

\* C8: when one service failed and another succeeded, the synthesized
\* response has success false and its text has a section labeled with each
\* of the two services, the failed one included.
C8_PartialFailureSections ==
  (/\ pc = "synthesized"
   /\ \E i, j \in DOMAIN synth.results :
        ~synth.results[i].success /\ synth.results[j].success)
    => /\ ~synth.success
       /\ \A i \in DOMAIN synth.results :
            Contains(synth.summary, TextOf[synth.results[i].agent])

\* C9: for every intent list with an intent of the data group and an intent
\* of the support group, the routing of analyze_intent names both agents and
\* the dispatcher calls both.
C9_BothGroupsBothAgents ==
  /\ (pc # "idle" /\ HasData(analysis.detected_intents)
        /\ HasSupport(analysis.detected_intents))
       => RoutedAgents(analysis.routing) = Agents
  /\ (Done /\ HasData(args.intents) /\ HasSupport(args.intents))
       => \A a \in Agents : Len(sent[a]) = 1 /\ call[a] = "Resolved"

\* C9 case: a query with intents of both groups was analyzed and dispatched
C9_Witness ==
  /\ pc = "coordinated"
  /\ HasData(analysis.detected_intents)
  /\ HasSupport(analysis.detected_intents)
  /\ args.intents = analysis.detected_intents
  /\ \A a \in Agents : Len(sent[a]) = 1

TouchesBoth(routing) == RoutedAgents(routing) = Agents

NoTriggerMatches(q) ==
  \A k \in DOMAIN intent_patterns :
    \A i \in DOMAIN intent_patterns[k].patterns :
      ~Search(intent_patterns[k].patterns[i], Lower(q))

\* C11: when no intent trigger matches the query, analyze_intent returns
\* exactly the one intent general_support, and its routing sends the query
\* to the support agent only.
C11_UnmatchedIsGeneralSupportOnly ==
  (pc = "analyzed" /\ NoTriggerMatches(query)) =>
    /\ analysis.detected_intents = <<"general_support">>
    /\ analysis.routing =
         <<[intent |-> "general_support", agent |-> "support_agent"]>>

\* C11 case: the query "asdkjh" has been classified
C11_Witness ==
  /\ pc = "analyzed"
  /\ query = <<"a","s","d","k","j","h">>
  /\ NoTriggerMatches(query)
  /\ RoutedAgents(analysis.routing) = {"support_agent"}

UpgradeScenario == <<"I","'","m"," ","c","u","s","t","o","m","e","r"," ","1"," ","a","n","d"," ","n","e","e","d"," ","h","e","l","p"," ","u","p","g","r","a","d","i","n","g"," ","m","y"," ","a","c","c","o","u","n","t">>

\* C12: the query "I'm customer 1 and need help upgrading my account" is
\* classified with a data-group intent and with upgrade, is routed to both
\* groups, and its dispatch returns two outcomes, the data agent's first.
C12_UpgradeScenarioBothGroups ==
  (pc \in {"analyzed", "await_data", "await_support", "coordinated",
           "synthesized"}
     /\ query = UpgradeScenario) =>
    /\ HasData(analysis.detected_intents)
    /\ InList("upgrade", analysis.detected_intents)
    /\ TouchesBoth(analysis.routing)
    /\ (Done /\ args.intents = analysis.detected_intents) =>
         AgentsOf(envelope.results) = <<"customer_data_agent", "support_agent">>

RefundScenario == <<"I","'","v","e"," ","b","e","e","n"," ","c","h","a","r","g","e","d"," ","t","w","i","c","e",","," ","p","l","e","a","s","e"," ","r","e","f","u","n","d"," ","i","m","m","e","d","i","a","t","e","l","y","!">>

\* C13: the priority is HIGH exactly when urgent or billing_issue is among
\* the detected intents and NORMAL otherwise; the query "I've been charged
\* twice, please refund immediately!" has both, touches the support group
\* only and gets HIGH.
C13_PriorityHighIffUrgentOrBilling ==
  pc = "analyzed" =>
    /\ analysis.priority \in {"HIGH", "NORMAL"}
    /\ analysis.priority = "HIGH" <=>
         (\/ InList("urgent", analysis.detected_intents)
          \/ InList("billing_issue", analysis.detected_intents))
    /\ query = RefundScenario =>
         /\ InList("billing_issue", analysis.detected_intents)
         /\ InList("urgent", analysis.detected_intents)
         /\ RoutedAgents(analysis.routing) = {"support_agent"}
         /\ analysis.priority = "HIGH"

\* C13 case: the refund query has been classified
C13_Witness ==
  /\ pc = "analyzed"
  /\ query = RefundScenario
  /\ analysis.priority = "HIGH"

GetCustomerScenario == <<"G","e","t"," ","c","u","s","t","o","m","e","r"," ","i","n","f","o","r","m","a","t","i","o","n"," ","f","o","r"," ","I","D"," ","5">>

\* C14: the query "Get customer information for ID 5" is classified as
\* exactly get_customer_info with the parameters exactly customer_id = 5
\* (no email), is routed to the data agent only, and its dispatch returns a
\* single outcome, the data agent's.
C14_GetCustomerScenario ==
  (pc \in {"analyzed", "await_data", "await_support", "coordinated",
           "synthesized"}
     /\ query = GetCustomerScenario) =>
    /\ analysis.detected_intents = <<"get_customer_info">>
    /\ analysis.extracted_parameters = [customer_id |-> <<5>>, email |-> <<>>]
    /\ RoutedAgents(analysis.routing) = {"customer_data_agent"}
    /\ args.intents = analysis.detected_intents =>
         /\ pc # "await_support"
         /\ sent["support_agent"] = <<>>
         /\ Done => AgentsOf(envelope.results) = <<"customer_data_agent">>

\* C14 case: the query has been classified and dispatched as classified
C14_Witness ==
  /\ pc = "coordinated"
  /\ query = GetCustomerScenario
  /\ args.intents = analysis.detected_intents
  /\ args.params = analysis.extracted_parameters
  /\ Len(envelope.results) = 1

\* C15: for one query each downstream service receives at most one task
\* submission, and a call that has resolved, failed or not, is not sent again.
C15_AtMostOneSubmission ==
  \A a \in Agents :
    /\ Len(sent[a]) <= 1
    /\ call[a] = "none" => sent[a] = <<>>
    /\ call[a] \in {"InFlight", "Resolved"} => Len(sent[a]) = 1

\* C15 case: one call timed out, the other one got a 500, and the dispatch
\* went on to the synthesis
C15_Witness ==
  /\ pc = "synthesized"
  /\ reply["customer_data_agent"].kind = "timeout"
  /\ reply["support_agent"].kind = "http"
  /\ reply["support_agent"].status = 500
  /\ \A a \in Agents : Len(sent[a]) = 1

\* the state of a call in the terms of the state machine: the terminal state
\* is read from the outcome the call left in results
TerminalStates ==
  {"Succeeded", "Failed(timeout)", "Failed(transport)",
   "Failed(application-error)"}

TerminalOf(o) ==
  IF o.success THEN "Succeeded"
  ELSE IF o.error = send_task([kind |-> "timeout", status |-> 0,
                               text |-> ""]).value
    THEN "Failed(timeout)"
    ELSE "Failed(transport)"

CallState(a) ==
  CASE call[a] = "none" -> "NotIssued"
    [] call[a] = "InFlight" -> "InFlight"
    [] call[a] = "Resolved" /\ OutcomesOf(a) # {} -> TerminalOf(OutcomeOf(a))
    [] OTHER -> "Lost"

\* C16: a call is created and in flight in one step, goes from in flight to
\* exactly one terminal state, recorded as its one outcome, and stays there
\* until the next query; every call in flight eventually reaches a terminal
\* state and every dispatch eventually returns.
C16_CallStateMachine ==
  /\ [][\A a \in Agents :
          /\ call[a] = "none" => call'[a] \in {"none", "InFlight"}
          /\ call[a] = "InFlight" => call'[a] \in {"InFlight", "Resolved"}
          /\ call[a] = "Resolved" =>
               \/ pc' = "idle"
               \/ /\ call'[a] = "Resolved"
                  /\ \A i \in DOMAIN results :
                       i \in DOMAIN results' /\ results'[i] = results[i]]_vars
  /\ [](\A a \in Agents :
          /\ call[a] = "Resolved" =>
               /\ Cardinality(OutcomesOf(a)) = 1
               /\ CallState(a) \in TerminalStates
          /\ call[a] # "Resolved" => OutcomesOf(a) = {})
  /\ \A a \in Agents : (call[a] = "InFlight") ~> (call[a] = "Resolved")
  /\ (pc \in {"await_data", "await_support"}) ~> (pc = "coordinated")

\* C16 case: a dispatch returned after one call timed out and one succeeded
C16_Witness ==
  /\ pc = "coordinated"
  /\ CallState("customer_data_agent") = "Failed(timeout)"
  /\ CallState("support_agent") = "Succeeded"

\* C17: every task submission has a client of its own, open while the call
\* is in flight and closed when it has resolved, however it resolved; when
\* the dispatch has returned no client is open.
C17_ClientPerCallReleased ==
  \A a \in Agents :
    /\ Len(clients[a]) = Len(sent[a])
    /\ call[a] = "InFlight" =>
         \A i \in DOMAIN clients[a] :
           clients[a][i] = (IF i = Len(clients[a]) THEN "open" ELSE "closed")
    /\ call[a] # "InFlight" =>
         \A i \in DOMAIN clients[a] : clients[a][i] = "closed"
    /\ Done => \A i \in DOMAIN clients[a] : clients[a][i] = "closed"

\* C17 case: a dispatch returned after a connection failure and an
\* unparseable 200 reply, both clients closed
C17_Witness ==
  /\ pc = "coordinated"
  /\ reply["customer_data_agent"].kind = "connect_error"
  /\ reply["support_agent"] = [kind |-> "http", status |-> 200, text |-> HtmlText]
  /\ \A a \in Agents : clients[a] = <<"closed">>

WellFormedTask(req, text) ==
  /\ req.jsonrpc = "2.0"
  /\ req.method = "tasks/send"
  /\ req.params.message.role = "user"
  /\ req.params.message.parts = <<[text |-> text]>>
  /\ req.params.id = req.id

\* the requests posted in this dispatch, each as <<agent, index>>
AllPosted == UNION {{<<a, i>> : i \in DOMAIN sent[a]} : a \in Agents}

\* C18: every task request posted has method tasks/send, one user message
\* part holding exactly the submitted text, and one task identifier in both
\* params.id and id; no two requests of a dispatch, and no two requests of
\* the test client, carry the same identifier.
C18_TaskEnvelope ==
  /\ \A i \in DOMAIN sent["customer_data_agent"] :
       WellFormedTask(sent["customer_data_agent"][i],
                      DataRequest(args.query, args.intents, args.params))
  /\ \A i \in DOMAIN sent["support_agent"] :
       WellFormedTask(sent["support_agent"][i],
                      SupportRequest(args.query, args.intents))
  /\ \A p, q \in AllPosted :
       p # q => sent[p[1]][p[2]].id # sent[q[1]][q[2]].id
  /\ \A i \in DOMAIN demo :
       \E q \in ScenarioQueries : WellFormedTask(demo[i], q)
  /\ \A i, j \in DOMAIN demo : i # j => demo[i].id # demo[j].id

\* C18 case: both requests of a dispatch have been posted
C18_Witness ==
  /\ pc = "await_support"
  /\ Len(sent["customer_data_agent"]) = 1
  /\ Len(sent["support_agent"]) = 1

\* C19: synthesize_response on an empty outcome list returns a response
\* with zero agents consulted whose summary says that no agent responded.
C19_EmptyOutcomeList ==
  (pc = "synthesized" /\ envelope.results = <<>>) =>
    /\ synth.agents_consulted = 0
    /\ synth.successful_responses = 0
    /\ synth.failed_responses = 0
    /\ synth.summary = <<"N","o"," ","a","g","e","n","t","s"," ","r","e","s","p","o","n","d","e","d">>
    /\ synth.results = <<>>

\* C19 case: a dispatch that called no service has been synthesized
C19_Witness ==
  /\ pc = "synthesized"
  /\ args.intents = <<"view_history">>
  /\ envelope.results = <<>>
  /\ synth.agents_consulted = 0

Unmapped(intent) ==
  /\ ~InList(intent, data_agent_intents)
  /\ ~InList(intent, support_agent_intents)

\* C20: an intent of neither group gets no routing entry, is named in no
\* request and raises nothing; a dispatch whose intents are all of neither
\* group calls no service and returns an empty list of outcomes.
C20_UnmappedIntentNotRouted ==
  /\ pc # "raised"
  /\ \A k \in DOMAIN Routing(args.intents, 1) :
       ~Unmapped(Routing(args.intents, 1)[k].intent)
  /\ \A k \in DOMAIN args.intents :
       Unmapped(args.intents[k]) =>
         \A a \in Agents : \A i \in DOMAIN sent[a] :
           ~Contains(sent[a][i].params.message.parts[1].text,
                     <<"'">> \o TextOf[args.intents[k]] \o <<"'">>)
  /\ (Done /\ \A k \in DOMAIN args.intents : Unmapped(args.intents[k])) =>
       /\ \A a \in Agents : sent[a] = <<>> /\ call[a] = "none"
       /\ envelope.results = <<>>
       /\ envelope.agents_called = 0

\* C20 case: a dispatch of the one intent view_history has returned
C20_Witness ==
  /\ pc = "coordinated"
  /\ args.intents = <<"view_history">>
  /\ envelope.results = <<>>

\* the intents analyze_intent can return: those of the table, and the default
EmittedIntents ==
  {intent_patterns[k].intent : k \in DOMAIN intent_patterns}
    \cup {"general_support"}

InExactlyOneGroup(intent) ==
  InList(intent, data_agent_intents) # InList(intent, support_agent_intents)

\* C21: every intent analyze_intent can return belongs to exactly one of the
\* two groups, so the routing has exactly one entry per detected intent, in
\* the order of detection, and is never empty.
C21_RoutingTotal ==
  /\ \A intent \in EmittedIntents : InExactlyOneGroup(intent)
  /\ pc = "analyzed" =>
       /\ \A k \in DOMAIN analysis.detected_intents :
            analysis.detected_intents[k] \in EmittedIntents
       /\ Len(analysis.routing) = Len(analysis.detected_intents)
       /\ \A k \in DOMAIN analysis.routing :
            analysis.routing[k].intent = analysis.detected_intents[k]
       /\ Len(analysis.routing) >= 1

\* C21 case: a query with intents of both groups has been classified
C21_Witness ==
  /\ pc = "analyzed"
  /\ Len(analysis.routing) = 3
  /\ analysis.routing[1].agent = "customer_data_agent"
  /\ analysis.routing[2].agent = "support_agent"

IdPatternMatches(prefixes, s) ==
  \E pre \in prefixes : Search(pre \o <<DigitPlus>>, s)

\* C22: the customer_id key is set exactly when the identifier pattern
\* matches the lower-cased query and the email key exactly when the email
\* pattern matches the query, whatever intents were detected; this holds for
\* the router's and for the notebook's analyze_intent.
C22_ParamsFromTextAlone ==
  /\ pc = "analyzed" =>
       /\ analysis.extracted_parameters.customer_id # <<>>
            <=> IdPatternMatches(IdPrefixes, Lower(query))
       /\ analysis.extracted_parameters.email # <<>>
            <=> Search(EmailPattern, query)
       /\ Len(analysis.extracted_parameters.customer_id) <= 1
       /\ Len(analysis.extracted_parameters.email) <= 1
  /\ pc = "colab_analyzed" =>
       /\ notebook.params.customer_id # <<>>
            <=> IdPatternMatches(ColabIdPrefixes, Lower(query))
       /\ notebook.params.email # <<>> <=> Search(EmailPattern, query)

\* C22 case: an identifier of 0 was extracted from a query in which no
\* trigger of a data-group intent about one customer matched
C22_Witness ==
  /\ pc = "analyzed"
  /\ analysis.extracted_parameters.customer_id = <<0>>
  /\ analysis.extracted_parameters.email = <<>>

Called == {a \in Agents : sent[a] # <<>>}

\* C25: for every intent list, the agents named by the routing of
\* analyze_intent are the agents coordinate_multi_agent_request calls.
C25_RoutingTablesAgree ==
  Done => RoutedAgents(Routing(args.intents, 1)) = Called

\* C25 case: a dispatch whose only data-group intent is report, next to an
\* intent of neither group, has returned
C25_Witness ==
  /\ pc = "coordinated"
  /\ args.intents = <<"billing", "report">>
  /\ Called = {"customer_data_agent"}

\* C26: the envelope of coordinate_multi_agent_request has success true and
\* agents_called equal to the number of results, which is 0, 1 or 2, whatever
\* the outcomes are.
C26_EnvelopeAlwaysSuccess ==
  Done =>
    /\ envelope.success
    /\ envelope.agents_called = Len(envelope.results)
    /\ envelope.agents_called \in 0..2
    /\ envelope.intents_processed = args.intents

\* C26 case: both calls failed and the envelope says success
C26_Witness ==
  /\ pc = "coordinated"
  /\ Len(envelope.results) = 2
  /\ \A i \in DOMAIN envelope.results : ~envelope.results[i].success
  /\ envelope.success

\* C27: when a customer_id was extracted, 0 included, the request sent to
\* the customer data agent names that customer ID, the data-group intents
\* and the original query.
C27_RequestNamesCustomerId ==
  \A i \in DOMAIN sent["customer_data_agent"] :
    LET text == sent["customer_data_agent"][i].params.message.parts[1].text
    IN /\ Contains(text, ReprList(DataIntents(args.intents)))
       /\ Contains(text, <<"O","r","i","g","i","n","a","l"," ","q","u","e","r","y",":"," ">> \o args.query)
       /\ args.params.customer_id # <<>> =>
            Contains(text, <<"C","u","s","t","o","m","e","r"," ","I","D",":"," ">>
                             \o IntToText(args.params.customer_id[1]) \o <<"."," ">>)

\* the descriptor a node publishes when it starts
Published(node) == Descriptor(node, SupportAgentCard)

C24_SuccessOrError ==
  tool_call.tool # "none" =>
    /\ "success" \in DOMAIN tool_ret
    /\ tool_ret.success \in BOOLEAN
    /\ "error" \in DOMAIN tool_ret <=> ~tool_ret.success

\* C24 case: update_customer was called with no field to write
C24_Witness ==
  /\ tool_call.tool = "update_customer"
  /\ ~tool_ret.success
  /\ tool_ret.error = "No fields to update"

\* C28: the wrapper connects once: at most one connection to the MCP server
\* is opened, and every request is issued on a session whose initialize()
\* has completed.
C28_ConnectsOnce ==
  /\ sse_opened <= 1
  /\ \A i \in DOMAIN issued : issued[i].initialized

\* C29: a step in which a tool returns success=false leaves the customers
\* and tickets tables as they were.
C29_FailureWritesNothing ==
  [][~tool_ret'.success => (customers' = customers /\ tickets' = tickets)]_vars

\* C29 case: update_customer failed on an unknown id after an update and an
\* insertion had been committed
C29_Witness ==
  /\ tool_call.tool = "update_customer"
  /\ tool_call.arguments[1] = 99
  /\ tool_ret = [success |-> FALSE, error |-> "Customer 99 not found"]
  /\ customers # SampleCustomers
  /\ Len(tickets) = Len(SampleTickets) + 1

\* C30: after any sequence of tool calls no connection that a tool opened
\* is open.
C30_NoConnectionLeftOpen == db_open = 0

====
